---- MODULE Spec2Model ----
(***************************************************************************)
(* Raport Otomatis API: the record store (student, subject, weight, score  *)
(* collections), the write handlers and the grade computation of           *)
(* generate_report (src/main.py), over the store helpers of                *)
(* src/database.py.                                                        *)
(*                                                                         *)
(* Numbers.  The code computes with Python floats.  The model computes     *)
(* with exact rationals <<n, d>> (d > 0, lowest terms); binary rounding    *)
(* error of the floats is not modelled.                                    *)
(*                                                                         *)
(* Documents.  The student, subject and weight collections are the         *)
(* sequences of their documents in insertion order (the natural order      *)
(* find_one scans).  No handler looks a score up by its identifier or      *)
(* depends on the order of the scores: the score collection is the bag of  *)
(* its documents without their _id.  The fields the handlers never read    *)
(* back (full_name, student_number, gender, birth_date, name, note, date,  *)
(* created_at, updated_at) are left out, and so is the echo of the payload *)
(* in the responses of create_student, create_subject and add_score.       *)
(***************************************************************************)
EXTENDS Integers, Sequences, FiniteSets, Bags, TLC

(***************************************************************************)
(* Bounds of the model.                                                    *)
(***************************************************************************)
\* documents in the store, all collections together
MaxDocs == 4
\* set_weight requests that run step by step in SpecConc
MaxSetWeight == 2
\* writes that complete while one generate_report request is in flight
MaxWrites == 2

(***************************************************************************)
(* Rational arithmetic.                                                    *)
(***************************************************************************)
Abs(n) == IF n < 0 THEN -n ELSE n

RECURSIVE GCD(_, _)
GCD(a, b) == IF b = 0 THEN a ELSE GCD(b, a % b)

Norm(n, d) == LET g == GCD(Abs(n), d) IN <<n \div g, d \div g>>

R(n) == <<n, 1>>

RAdd(x, y) ==
    LET l == (x[2] \div GCD(x[2], y[2])) * y[2]
    IN  Norm(x[1] * (l \div x[2]) + y[1] * (l \div y[2]), l)

RMul(x, y) ==
    LET a == Norm(x[1], y[2])
        b == Norm(y[1], x[2])
    IN  Norm(a[1] * b[1], a[2] * b[2])

RDivInt(x, k) == RMul(x, <<1, k>>)

RGeq(x, y) == x[1] * y[2] >= y[1] * x[2]

\* round(x, 2): nearest multiple of 1/100, an exact tie going to the even one
Round2(x) ==
    LET q == (x[1] * 100) \div x[2]
        r == (x[1] * 100) - q * x[2]
        up == \/ 2 * r > x[2]
              \/ 2 * r = x[2] /\ q % 2 # 0
    IN  Norm(IF up THEN q + 1 ELSE q, 100)

RECURSIVE RSumSeq(_)
RSumSeq(s) == IF s = <<>> THEN R(0) ELSE RAdd(Head(s), RSumSeq(Tail(s)))

\* statistics.mean of a non-empty list
mean(s) == RDivInt(RSumSeq(s), Len(s))

(***************************************************************************)
(* Values of the requests.                                                 *)
(***************************************************************************)
\* None as a class_name
None == "None"
\* None where a document or a number is expected (a failed find_one, an
\* average of no scores)
Absent == <<>>

Types == <<"tugas", "kuis", "uts", "uas">>
TypeSet == {Types[i] : i \in 1..4}

\* str(ObjectId): the collection tag only keeps identifiers of different
\* collections distinct, as ObjectIds are
ObjectId(kind, n) == <<kind, n>>
\* a string that is no ObjectId: ObjectId(doc_id) raises
BadId == <<"bad", 0>>

ClassNames == {"VIIA", "VIIB"}
WeightClassNames == {"VIIA", None}
KkmValues == {R(70)}
\* 69.996 and 70
ScoreValues == {<<17499, 250>>, R(70)}

Quad(a, b, c, d) == [tugas |-> R(a), kuis |-> R(b), uts |-> R(c), uas |-> R(d)]
WeightQuads == {Quad(100, 0, 0, 0), Quad(25, 25, 25, 25), Quad(-50, 50, 0, 0)}

\* the identifiers the first documents get (a request may name them before
\* the document exists), and a string that is no ObjectId
StudentRefs == {ObjectId("student", 1), ObjectId("student", 2), BadId}
SubjectRefs == {ObjectId("subject", 1), BadId}

VARIABLES
    student,    \* db["student"]
    subject,    \* db["subject"]
    weight,     \* db["weight"]
    score,      \* db["score"]
    resp,       \* the last response a handler returned
    sw,         \* set_weight requests in flight (SpecConc)
    rp,         \* the generate_report request in flight (SpecConc)
    hist        \* store states since the request in flight began (SpecConc)

vars == <<student, subject, weight, score, resp, sw, rp, hist>>

NumDocs == Len(student) + Len(subject) + Len(weight) + BagCardinality(score)

(***************************************************************************)
(* src/database.py                                                         *)
(***************************************************************************)
\* find_one, given the positions of the documents the filter matches: the
\* first of them in natural order, None when there is none
find_one(coll, hits) ==
    IF hits = {} THEN Absent
    ELSE coll[CHOOSE i \in hits : \A j \in hits : i <= j]

\* positions of the documents matching {"_id": id}
by_id(coll, id) == {i \in 1..Len(coll) : coll[i]._id = id}

\* get_document_by_id filtering on "id", a field no stored document has
get_document_by_id_wrong_field(coll, doc_id) ==
    find_one(coll, {i \in by_id(coll, doc_id) : "id" \in DOMAIN coll[i]})

\* ObjectId(doc_id) raises on a string that is no ObjectId: the except
\* clause returns None
get_document_by_id(coll, doc_id) ==
    IF doc_id = BadId THEN Absent
    ELSE find_one(coll, by_id(coll, doc_id))

\* the ObjectId the store gives the next document of a collection that holds
\* n documents
create_document_id(kind, n) == ObjectId(kind, n + 1)

\* create_document: insert_one of a copy of data (plus timestamps)
insert_one(coll, kind, data) ==
    Append(coll, [_id |-> create_document_id(kind, Len(coll))] @@ data)

\* insert_one into the score collection
insert_score(coll, data) == coll (+) SetToBag({data})

\* list(cursor): the documents of a bag, one entry per copy
RECURSIVE list(_)
list(docs) ==
    IF docs = EmptyBag THEN <<>>
    ELSE LET d == CHOOSE x \in BagToSet(docs) : TRUE
         IN  <<d>> \o list(docs (-) SetToBag({d}))

\* update_one({"_id": id}, {"$set": data})
update_one(coll, id, data) ==
    [i \in 1..Len(coll) |->
        IF i \in by_id(coll, id) /\ \A j \in by_id(coll, id) : i <= j
        THEN [f \in DOMAIN coll[i] |->
                 IF f \in DOMAIN data THEN data[f] ELSE coll[i][f]]
        ELSE coll[i]]

(***************************************************************************)
(* src/main.py: the write handlers, each as one step                       *)
(***************************************************************************)
create_student(class_name) ==
    /\ NumDocs < MaxDocs
    /\ student' = insert_one(student, "student", [class_name |-> class_name])
    /\ resp' = [op |-> "create_student", code |-> 200,
                body |-> [id |-> create_document_id("student", Len(student))]]
    /\ UNCHANGED <<subject, weight, score, sw, rp, hist>>

create_subject(kkm) ==
    /\ NumDocs < MaxDocs
    /\ subject' = insert_one(subject, "subject", [kkm |-> kkm])
    /\ resp' = [op |-> "create_subject", code |-> 200,
                body |-> [id |-> create_document_id("subject", Len(subject))]]
    /\ UNCHANGED <<student, weight, score, sw, rp, hist>>

\* the find step of set_weight: the existing record of the pair, or Absent
find_weight(coll, subject_id, class_name) ==
    find_one(coll, {i \in 1..Len(coll) : /\ coll[i].subject_id = subject_id
                                         /\ coll[i].class_name = class_name})

\* set_weight without the upsert: every request inserts
write_weight_insert_only(coll, existing, data) == insert_one(coll, "weight", data)

\* the write step of set_weight, given what the find step returned
write_weight(coll, existing, data) ==
    IF existing # Absent
    THEN update_one(coll, existing._id, data)
    ELSE insert_one(coll, "weight", data)

weight_response(coll, existing, data) ==
    [op |-> "set_weight", code |-> 200,
     body |-> [id |-> IF existing # Absent THEN existing._id
                      ELSE create_document_id("weight", Len(coll)),
               data |-> data,
               created |-> existing = Absent]]

WeightIn(subject_id, class_name, q) ==
    [subject_id |-> subject_id, class_name |-> class_name,
     tugas |-> q.tugas, kuis |-> q.kuis, uts |-> q.uts, uas |-> q.uas]

set_weight(data) ==
    LET existing == find_weight(weight, data.subject_id, data.class_name)
    IN  /\ existing = Absent => NumDocs < MaxDocs
        /\ weight' = write_weight(weight, existing, data)
        /\ resp' = weight_response(weight, existing, data)
        /\ UNCHANGED <<student, subject, score, sw, rp, hist>>

ScoreIn(student_id, subject_id, type, value) ==
    [student_id |-> student_id, subject_id |-> subject_id,
     type |-> type, value |-> value]

add_score(data) ==
    /\ NumDocs < MaxDocs
    /\ score' = insert_score(score, data)
    /\ resp' = [op |-> "add_score", code |-> 200,
                body |-> [id |-> create_document_id("score", BagCardinality(score))]]
    /\ UNCHANGED <<student, subject, weight, sw, rp, hist>>

(***************************************************************************)
(* src/main.py: generate_report                                            *)
(***************************************************************************)
\* the two weight lookups in the opposite order: the subject-wide record
\* wins over the record of the class
resolve_weight_default_first(coll, subject_id, class_name) ==
    LET w == find_weight(coll, subject_id, None)
    IN  IF w = Absent THEN find_weight(coll, subject_id, class_name) ELSE w

\* the two weight lookups: the second one runs only if the first found nothing
resolve_weight(coll, subject_id, class_name) ==
    LET w == find_weight(coll, subject_id, class_name)
    IN  IF w = Absent THEN find_weight(coll, subject_id, None) ELSE w

\* (weight or {}).get(t, default) for the four types
weights_of(w) ==
    IF w = Absent THEN Quad(30, 20, 20, 30)
    ELSE [tugas |-> w.tugas, kuis |-> w.kuis, uts |-> w.uts, uas |-> w.uas]

\* the zero test on the magnitudes: fails only when every weight is 0
total_w_magnitudes(q) ==
    RAdd(RAdd(RAdd(<<Abs(q.tugas[1]), q.tugas[2]>>, <<Abs(q.kuis[1]), q.kuis[2]>>),
              <<Abs(q.uts[1]), q.uts[2]>>),
         <<Abs(q.uas[1]), q.uas[2]>>)

total_w(q) == RAdd(RAdd(RAdd(q.tugas, q.kuis), q.uts), q.uas)

\* avg_of returning the sum of the values instead of their mean
avg_of_sum(coll, student_id, subject_id, t) ==
    LET hits == {d \in BagToSet(coll) : /\ d.student_id = student_id
                                        /\ d.subject_id = subject_id
                                        /\ d.type = t}
        docs == list([d \in hits |-> coll[d]])
    IN  IF docs = <<>> THEN Absent
        ELSE RSumSeq([i \in 1..Len(docs) |-> docs[i].value])

avg_of(coll, student_id, subject_id, t) ==
    LET hits == {d \in BagToSet(coll) : /\ d.student_id = student_id
                                        /\ d.subject_id = subject_id
                                        /\ d.type = t}
        docs == list([d \in hits |-> coll[d]])
    IN  IF docs = <<>> THEN Absent
        ELSE mean([i \in 1..Len(docs) |-> docs[i].value])

comp_score(avg_val, w) ==
    RMul(IF avg_val # Absent THEN avg_val ELSE R(0), RDivInt(w, 100))

\* the final score re-normalized over the types that have scores
final_of_renormalized(avgs, q) ==
    LET present == [t \in TypeSet |-> IF avgs[t] # Absent THEN q[t] ELSE R(0)]
        sum == RAdd(RAdd(RAdd(comp_score(avgs.tugas, q.tugas),
                              comp_score(avgs.kuis, q.kuis)),
                         comp_score(avgs.uts, q.uts)),
                    comp_score(avgs.uas, q.uas))
        share == RDivInt(RAdd(RAdd(RAdd(present.tugas, present.kuis), present.uts),
                              present.uas), 100)
    IN  IF share[1] <= 0 THEN sum
        ELSE RMul(sum, <<share[2], share[1]>>)

\* final = 0.0, then final += comp_score over tugas, kuis, uts, uas
final_of(avgs, q) ==
    RAdd(RAdd(RAdd(RAdd(R(0), comp_score(avgs.tugas, q.tugas)),
                   comp_score(avgs.kuis, q.kuis)),
              comp_score(avgs.uts, q.uts)),
         comp_score(avgs.uas, q.uas))

status_of(final, kkm) == IF RGeq(final, kkm) THEN "Tuntas" ELSE "Belum Tuntas"

not_found ==
    [op |-> "generate_report", code |-> 404, body |-> [detail |-> "Siswa atau mapel tidak ditemukan"]]

all_zero ==
    [op |-> "generate_report", code |-> 400, body |-> [detail |-> "Semua bobot 0"]]

\* the returned dictionary
report(st, su, q, avgs) ==
    [op |-> "generate_report", code |-> 200,
     body |-> [student |-> [id |-> st._id, class_name |-> st.class_name],
               subject |-> [id |-> su._id, kkm |-> su.kkm],
               weights |-> q,
               components |-> [t \in TypeSet |->
                                  [average |-> avgs[t], weight |-> q[t],
                                   weighted_score |-> comp_score(avgs[t], q[t])]],
               final_score |-> Round2(final_of(avgs, q)),
               status |-> status_of(final_of(avgs, q), su.kkm)]]

\* the whole handler against one store state
response_of(students, subjects, weights, scores, student_id, subject_id) ==
    LET st == get_document_by_id(students, student_id)
        su == get_document_by_id(subjects, subject_id)
    IN  IF st = Absent \/ su = Absent THEN not_found
        ELSE LET q == weights_of(resolve_weight(weights, subject_id, st.class_name))
             IN  IF total_w(q) = R(0) THEN all_zero
                 ELSE report(st, su, q,
                             [t \in TypeSet |->
                                 avg_of(scores, student_id, subject_id, t)])

\* generate_report storing the default weights of a subject that has no
\* subject-wide record
generate_report_storing_default(student_id, subject_id) ==
    /\ resp' = response_of(student, subject, weight, score, student_id, subject_id)
    /\ weight' = IF find_weight(weight, subject_id, None) = Absent
                 THEN insert_one(weight, "weight",
                                 WeightIn(subject_id, None, Quad(30, 20, 20, 30)))
                 ELSE weight
    /\ UNCHANGED <<student, subject, score, sw, rp, hist>>

generate_report(student_id, subject_id) ==
    /\ resp' = response_of(student, subject, weight, score, student_id, subject_id)
    /\ UNCHANGED <<student, subject, weight, score, sw, rp, hist>>

(***************************************************************************)
(* The handlers as single steps.                                           *)
(***************************************************************************)
\* weights of the first subject for a class and for no class, of every
\* quadruple, and weights of another subject
WeightInputs ==
    {WeightIn(ObjectId("subject", 1), c, q) : c \in WeightClassNames, q \in WeightQuads}
    \cup {WeightIn(BadId, c, Quad(25, 25, 25, 25)) : c \in WeightClassNames}

\* scores of the first student in the first subject, of every type, one score
\* of another student and one in another subject
ScoreInputs ==
    {ScoreIn(ObjectId("student", 1), ObjectId("subject", 1), "tugas", v) :
        v \in ScoreValues}
    \cup {ScoreIn(ObjectId("student", 1), ObjectId("subject", 1), t, R(70)) :
            t \in TypeSet}
    \cup {ScoreIn(ObjectId("student", 2), ObjectId("subject", 1), "tugas", R(70)),
          ScoreIn(ObjectId("student", 1), BadId, "tugas", R(70))}

NoRequest == [pc |-> "idle"]

Init ==
    /\ student = <<>>
    /\ subject = <<>>
    /\ weight = <<>>
    /\ score = EmptyBag
    /\ resp = [op |-> "none"]
    /\ sw = [p \in 1..MaxSetWeight |-> NoRequest]
    /\ rp = NoRequest
    /\ hist = <<>>

CreateStudent == \E c \in ClassNames : create_student(c)

CreateSubject == \E k \in KkmValues : create_subject(k)

SetWeight == \E data \in WeightInputs : set_weight(data)

AddScore == \E data \in ScoreInputs : add_score(data)

GenerateReport ==
    \E st \in StudentRefs, su \in SubjectRefs : generate_report(st, su)

Next ==
    \/ CreateStudent
    \/ CreateSubject
    \/ SetWeight
    \/ AddScore
    \/ GenerateReport

Spec == Init /\ [][Next]_vars

(***************************************************************************)
(* The handlers step by step: one step per call on the store.  FastAPI     *)
(* runs the handlers (plain def) on a thread pool, so the calls of         *)
(* requests in flight interleave.  The store starts with one student and   *)
(* one subject, the requests are about them.                               *)
(***************************************************************************)
ConcStudent == ObjectId("student", 1)
ConcSubject == ObjectId("subject", 1)

ConcWeightInputs ==
    {WeightIn(ConcSubject, "VIIA", Quad(100, 0, 0, 0)),
     WeightIn(ConcSubject, None, Quad(25, 25, 25, 25))}

ConcScoreInputs ==
    {ScoreIn(ConcStudent, ConcSubject, t, R(70)) : t \in {"tugas", "uas"}}

InitConc ==
    /\ student = insert_one(<<>>, "student", [class_name |-> "VIIA"])
    /\ subject = insert_one(<<>>, "subject", [kkm |-> R(70)])
    /\ weight = <<>>
    /\ score = EmptyBag
    /\ resp = [op |-> "none"]
    /\ sw = [p \in 1..MaxSetWeight |-> NoRequest]
    /\ rp = NoRequest
    /\ hist = <<>>

\* set_weight requests past their find step that will insert
PendingInserts ==
    Cardinality({p \in 1..MaxSetWeight : sw[p].pc = "found" /\ sw[p].existing = Absent})

ReportInFlight == rp.pc \notin {"idle", "done"}

\* hist holds the state the request began in and one state per write since
WriteAllowed == ReportInFlight => Len(hist) <= MaxWrites

\* a request takes the first free slot
FirstFree(p) == \A o \in 1..(p - 1) : sw[o].pc # "idle"

\* the store states the request in flight has run through
record_write(weights, scores) ==
    IF ReportInFlight THEN Append(hist, [weight |-> weights, score |-> scores])
    ELSE hist

\* set_weight, line 108: find_one
sw_find(p, data) ==
    LET existing == find_weight(weight, data.subject_id, data.class_name)
    IN  /\ sw[p].pc = "idle"
        /\ FirstFree(p)
        /\ existing = Absent => NumDocs + PendingInserts < MaxDocs
        /\ sw' = [sw EXCEPT ![p] = [pc |-> "found", data |-> data,
                                    existing |-> existing]]
        /\ UNCHANGED <<student, subject, weight, score, resp, rp, hist>>

\* set_weight, lines 114-120: update_one or create_document, and the return
sw_write(p) ==
    /\ sw[p].pc = "found"
    /\ WriteAllowed
    /\ weight' = write_weight(weight, sw[p].existing, sw[p].data)
    /\ resp' = weight_response(weight, sw[p].existing, sw[p].data)
    /\ sw' = [sw EXCEPT ![p] = NoRequest]
    /\ hist' = record_write(weight', score)
    /\ UNCHANGED <<student, subject, score, rp>>

\* add_score makes one call on the store
conc_add_score(data) ==
    /\ NumDocs + PendingInserts < MaxDocs
    /\ WriteAllowed
    /\ score' = insert_score(score, data)
    /\ resp' = [op |-> "add_score", code |-> 200,
                body |-> [id |-> create_document_id("score", BagCardinality(score))]]
    /\ hist' = record_write(weight, score')
    /\ UNCHANGED <<student, subject, weight, sw, rp>>

\* generate_report, lines 158-161
rp_begin(student_id, subject_id) ==
    LET st == get_document_by_id(student, student_id)
        su == get_document_by_id(subject, subject_id)
    IN  /\ rp.pc = "idle"
        /\ IF st = Absent \/ su = Absent
           THEN /\ rp' = [pc |-> "done"]
                /\ resp' = not_found
                /\ hist' = hist
           ELSE /\ rp' = [pc |-> "class_weight", student_id |-> student_id,
                          subject_id |-> subject_id, st |-> st, su |-> su]
                /\ resp' = resp
                /\ hist' = <<[weight |-> weight, score |-> score]>>
        /\ UNCHANGED <<student, subject, weight, score, sw>>

\* lines 169-175, once the weight record (or None) is known
rp_weighted(w) ==
    LET q == weights_of(w)
    IN  IF total_w(q) = R(0)
        THEN /\ rp' = [pc |-> "done"]
             /\ resp' = all_zero
        ELSE /\ rp' = [rp EXCEPT !.pc = "tugas"] @@
                         [q |-> q, avgs |-> [t \in TypeSet |-> Absent]]
             /\ resp' = resp

\* line 165: the weight of the student's class
rp_class_weight ==
    LET w == find_weight(weight, rp.subject_id, rp.st.class_name)
    IN  /\ rp.pc = "class_weight"
        /\ IF w = Absent
           THEN /\ rp' = [rp EXCEPT !.pc = "default_weight"]
                /\ resp' = resp
           ELSE rp_weighted(w)
        /\ UNCHANGED <<student, subject, weight, score, sw, hist>>

\* line 167: the subject-wide weight
rp_default_weight ==
    /\ rp.pc = "default_weight"
    /\ rp_weighted(find_weight(weight, rp.subject_id, None))
    /\ UNCHANGED <<student, subject, weight, score, sw, hist>>

\* lines 186-188: avg_of for tugas, kuis, uts
rp_avg(i) ==
    /\ rp.pc = Types[i]
    /\ rp' = [rp EXCEPT !.pc = Types[i + 1],
                         !.avgs[Types[i]] =
                             avg_of(score, rp.student_id, rp.subject_id, Types[i])]
    /\ UNCHANGED <<student, subject, weight, score, resp, sw, hist>>

\* lines 189-220: avg_of for uas, the computation and the return
rp_return ==
    LET avgs == [rp.avgs EXCEPT !.uas =
                    avg_of(score, rp.student_id, rp.subject_id, "uas")]
    IN  /\ rp.pc = "uas"
        /\ rp' = [pc |-> "done", q |-> rp.q, avgs |-> avgs]
        /\ resp' = report(rp.st, rp.su, rp.q, avgs)
        /\ UNCHANGED <<student, subject, weight, score, sw, hist>>

SwFind == \E p \in 1..MaxSetWeight, data \in ConcWeightInputs : sw_find(p, data)

SwWrite == \E p \in 1..MaxSetWeight : sw_write(p)

ConcAddScore == \E data \in ConcScoreInputs : conc_add_score(data)

RpBegin == rp_begin(ConcStudent, ConcSubject)

RpAvg == \E i \in 1..3 : rp_avg(i)

NextConc ==
    \/ SwFind
    \/ SwWrite
    \/ ConcAddScore
    \/ RpBegin
    \/ rp_class_weight
    \/ rp_default_weight
    \/ RpAvg
    \/ rp_return

SpecConc == InitConc /\ [][NextConc]_vars

(***************************************************************************)
(* What the specification expects of a store state, stated over index sets *)
(* of the collections and not through the handlers' operators.             *)
(***************************************************************************)
QuadOf(r) == [tugas |-> r.tugas, kuis |-> r.kuis, uts |-> r.uts, uas |-> r.uas]

PairRecords(ws, subject_id, class_name) ==
    {i \in 1..Len(ws) : ws[i].subject_id = subject_id /\ ws[i].class_name = class_name}

\* the quadruples the three-level fallback allows for a subject and a class
FallbackQuads(ws, subject_id, class_name) ==
    IF PairRecords(ws, subject_id, class_name) # {}
    THEN {QuadOf(ws[i]) : i \in PairRecords(ws, subject_id, class_name)}
    ELSE IF PairRecords(ws, subject_id, None) # {}
         THEN {QuadOf(ws[i]) : i \in PairRecords(ws, subject_id, None)}
         ELSE {Quad(30, 20, 20, 30)}

QuadSum(q) == RAdd(q.tugas, RAdd(q.kuis, RAdd(q.uts, q.uas)))

HasDocument(coll, id) == \E i \in 1..Len(coll) : coll[i]._id = id

DocumentOf(coll, id) == coll[CHOOSE i \in 1..Len(coll) : coll[i]._id = id]

MatchingScores(scs, student_id, subject_id, t) ==
    {d \in BagToSet(scs) : /\ d.student_id = student_id
                           /\ d.subject_id = subject_id
                           /\ d.type = t}

\* sum of the values and number of the scores of ds, copies counted
RECURSIVE ValueSum(_, _)
ValueSum(scs, ds) ==
    IF ds = {} THEN R(0)
    ELSE LET d == CHOOSE x \in ds : TRUE
         IN  RAdd(RMul(d.value, R(CopiesIn(d, scs))), ValueSum(scs, ds \ {d}))

RECURSIVE ScoreCount(_, _)
ScoreCount(scs, ds) ==
    IF ds = {} THEN 0
    ELSE LET d == CHOOSE x \in ds : TRUE
         IN  CopiesIn(d, scs) + ScoreCount(scs, ds \ {d})

\* the mean of the matching scores, Absent when there is none
ExpectedAverage(scs, student_id, subject_id, t) ==
    LET ds == MatchingScores(scs, student_id, subject_id, t)
    IN  IF ds = {} THEN Absent
        ELSE RMul(ValueSum(scs, ds), <<1, ScoreCount(scs, ds)>>)

AverageOrZero(a) == IF a = Absent THEN R(0) ELSE a

\* average_or_zero x weight / 100
ExpectedComponent(scs, student_id, subject_id, t, q) ==
    RMul(AverageOrZero(ExpectedAverage(scs, student_id, subject_id, t)),
         RMul(q[t], <<1, 100>>))

ExpectedFinal(scs, student_id, subject_id, q) ==
    RAdd(ExpectedComponent(scs, student_id, subject_id, "tugas", q),
         RAdd(ExpectedComponent(scs, student_id, subject_id, "kuis", q),
              RAdd(ExpectedComponent(scs, student_id, subject_id, "uts", q),
                   ExpectedComponent(scs, student_id, subject_id, "uas", q))))

IsReport(r) == r.op = "generate_report" /\ r.code = 200

\* a report names the student and the subject it was asked for
ReportNames(r, st, su) == r.body.student.id = st /\ r.body.subject.id = su

\* what generate_report(st, su) returns in the current state
Returned(st, su) == response_of(student, subject, weight, score, st, su)

(***************************************************************************)
(* C1: the weights a report applies are those of the record of (subject,   *)
(* class of the student) when there is one, else those of the record of    *)
(* the subject with no class when there is one, else 30/20/20/30; never    *)
(* those of another class or subject.                                      *)
(***************************************************************************)
C1_WeightFallback ==
    \A st \in StudentRefs, su \in SubjectRefs :
        LET r == Returned(st, su)
        IN  IsReport(r)
            => /\ HasDocument(student, st)
               /\ r.body.weights \in
                      FallbackQuads(weight, su, DocumentOf(student, st).class_name)
               /\ \A t \in TypeSet : r.body.components[t].weight = r.body.weights[t]

\* a report for a class that has a record of its own and a subject-wide
\* record with other percentages
C1_Witness ==
    /\ IsReport(resp)
    /\ \E i, j \in 1..Len(weight) :
          /\ weight[i].subject_id = resp.body.subject.id
          /\ weight[i].class_name = resp.body.student.class_name
          /\ weight[j].subject_id = resp.body.subject.id
          /\ weight[j].class_name = None
          /\ QuadOf(weight[i]) # QuadOf(weight[j])
          /\ resp.body.weights = QuadOf(weight[i])

(***************************************************************************)
(* C2: the final score is the sum over the four types of                   *)
(* average_or_zero x weight / 100: a type without scores contributes 0 and *)
(* the weights of the other types are not re-normalized.                   *)
(***************************************************************************)
C2_FinalScore ==
    \A st \in StudentRefs, su \in SubjectRefs :
        LET r == Returned(st, su)
            b == r.body
        IN  IsReport(r)
            => /\ \A t \in TypeSet :
                     /\ b.components[t].average = ExpectedAverage(score, st, su, t)
                     /\ b.components[t].weighted_score =
                            ExpectedComponent(score, st, su, t, b.weights)
               /\ b.final_score = Round2(ExpectedFinal(score, st, su, b.weights))

\* a report over a type with two different scores and a type with none,
\* under weights that do not sum to 100 over the types present
C2_Witness ==
    /\ IsReport(resp)
    /\ resp.body.components["uas"].average = Absent
    /\ resp.body.weights["uas"] # R(0)
    /\ \E d, e \in MatchingScores(score, resp.body.student.id,
                                    resp.body.subject.id, "tugas") :
          d.value # e.value
    /\ resp.body.final_score # R(0)

(***************************************************************************)
(* C3: in every report the status is "Tuntas" exactly when the final_score *)
(* the report returns (rounded to 2 decimal places) is at least the kkm of *)
(* the subject.                                                            *)
(***************************************************************************)
C3_StatusOfReturnedScore ==
    IsReport(resp)
    => /\ resp.body.status \in {"Tuntas", "Belum Tuntas"}
       /\ resp.body.status = "Tuntas"
            <=> RGeq(resp.body.final_score, resp.body.subject.kkm)

(***************************************************************************)
(* C4: for an existing student and subject, generate_report fails with     *)
(* 400 exactly when the four resolved weights sum to 0, and then returns   *)
(* no final score and no status.                                           *)
(***************************************************************************)
C4_ZeroTotalWeight ==
    \A st \in StudentRefs, su \in SubjectRefs :
        LET r == Returned(st, su)
        IN  /\ HasDocument(student, st) /\ HasDocument(subject, su)
               => (r.code = 400
                     <=> \A q \in FallbackQuads(weight, su,
                                     DocumentOf(student, st).class_name) :
                            QuadSum(q) = R(0))
            /\ r.code = 400
               => /\ HasDocument(student, st) /\ HasDocument(subject, su)
                  /\ DOMAIN r.body = {"detail"}

\* a failed report while the percentages that apply are not all 0
C4_Witness ==
    /\ resp.op = "generate_report"
    /\ resp.code = 400
    /\ \E i \in 1..Len(weight) :
          /\ QuadSum(QuadOf(weight[i])) = R(0)
          /\ weight[i].tugas # R(0)
    /\ score # EmptyBag

(***************************************************************************)
(* C5: generate_report fails with 404 exactly when the student or the      *)
(* subject identifier resolves to no stored record, whatever weights and   *)
(* scores are stored; a report is returned only when both exist.           *)
(***************************************************************************)
C5_NotFound ==
    \A st \in StudentRefs, su \in SubjectRefs :
        LET r == Returned(st, su)
        IN  /\ r.code = 404
               <=> ~(HasDocument(student, st) /\ HasDocument(subject, su))
            /\ r.code = 404 => DOMAIN r.body = {"detail"}
            /\ r.code \in {200, 400, 404}

\* a 404 while a score and a zero-sum weight name the missing student's
\* identifier and subject
C5_Witness ==
    /\ resp.op = "generate_report"
    /\ resp.code = 404
    /\ student = <<>>
    /\ subject # <<>>
    /\ \E d \in BagToSet(score) : d.student_id \in StudentRefs \ {BadId}
    /\ \E i \in 1..Len(weight) :
          /\ HasDocument(subject, weight[i].subject_id)
          /\ QuadSum(QuadOf(weight[i])) = R(0)

(***************************************************************************)
(* C6: in every reachable state, whatever the interleaving of set_weight   *)
(* requests, there is at most one Weight record per (subject_id,           *)
(* class_name) pair.                                                       *)
(***************************************************************************)
C6_OneRecordPerPair ==
    \A i, j \in 1..Len(weight) :
        weight[i].subject_id = weight[j].subject_id
        /\ weight[i].class_name = weight[j].class_name
        => i = j

(***************************************************************************)
(* C7: a set_weight request that runs on its own overwrites the four       *)
(* percentages of the record of its pair and keeps its identifier, or      *)
(* creates one record when the pair has none; the records of every other   *)
(* pair and all students, subjects and scores stay as they are, and a      *)
(* later generate_report for the pair uses the new percentages.            *)
(***************************************************************************)
ReportUses(st, su, q) ==
    LET r == response_of(student', subject', weight', score', st, su)
    IN  \/ r.code = 200 /\ r.body.weights = q
        \/ r.code = 400 /\ QuadSum(q) = R(0)

C7_Upsert ==
    [][resp'.op = "set_weight"
       => LET data == resp'.body.data
              old == PairRecords(weight, data.subject_id, data.class_name)
          IN  /\ UNCHANGED <<student, subject, score>>
              /\ \A i \in 1..Len(weight) :
                    IF i \in old
                    THEN /\ weight'[i]._id = weight[i]._id
                         /\ weight'[i]._id = resp'.body.id
                         /\ weight'[i].subject_id = data.subject_id
                         /\ weight'[i].class_name = data.class_name
                         /\ QuadOf(weight'[i]) = QuadOf(data)
                    ELSE weight'[i] = weight[i]
              /\ IF old # {}
                 THEN Len(weight') = Len(weight) /\ ~resp'.body.created
                 ELSE /\ Len(weight') = Len(weight) + 1
                      /\ resp'.body.created
                      /\ ~HasDocument(weight, resp'.body.id)
                      /\ weight'[Len(weight')] = [_id |-> resp'.body.id] @@ data
              /\ \A st \in StudentRefs, su \in SubjectRefs :
                    /\ HasDocument(student, st)
                    /\ HasDocument(subject, su)
                    /\ su = data.subject_id
                    /\ \/ DocumentOf(student, st).class_name = data.class_name
                       \/ /\ data.class_name = None
                          /\ PairRecords(weight, su,
                                 DocumentOf(student, st).class_name) = {}
                    => ReportUses(st, su, QuadOf(data))]_vars

\* an overwrite that changed the percentages of a pair, next to the record
\* of another pair, with a student and a subject the pair applies to
C7_Witness ==
    /\ resp.op = "set_weight"
    /\ ~resp.body.created
    /\ Len(weight) >= 2
    /\ HasDocument(subject, resp.body.data.subject_id)
    /\ \E i \in 1..Len(student) : student[i].class_name = resp.body.data.class_name

(***************************************************************************)
(* C8: generate_report leaves the four collections as they are, whatever   *)
(* it returns, so a second request with the same arguments returns the     *)
(* same response.                                                          *)
(***************************************************************************)
C8_ReadOnly ==
    [][resp'.op = "generate_report"
       => /\ UNCHANGED <<student, subject, weight, score>>
          /\ IsReport(resp) /\ IsReport(resp')
             /\ ReportNames(resp', resp.body.student.id, resp.body.subject.id)
             => resp' = resp]_vars

\* a report returned over a store that holds weights and scores
C8_Witness ==
    /\ IsReport(resp)
    /\ weight # <<>>
    /\ score # EmptyBag

(***************************************************************************)
(* C9: every stored Weight record has each of its four percentages between *)
(* 0 and 100.                                                              *)
(***************************************************************************)
C9_PercentRange ==
    \A i \in 1..Len(weight) : \A t \in TypeSet :
        RGeq(weight[i][t], R(0)) /\ RGeq(R(100), weight[i][t])

(***************************************************************************)
(* C10: a report produced while add_score and set_weight requests run      *)
(* corresponds to a single state of the store reached between the start    *)
(* and the end of the request: its weights and its four averages are those *)
(* that one state yields.                                                  *)
(***************************************************************************)
ReportDone == rp.pc = "done" /\ "avgs" \in DOMAIN rp

ConcClass == DocumentOf(student, ConcStudent).class_name

C10_SingleState ==
    ReportDone
    => \E k \in 1..Len(hist) :
          /\ rp.q \in FallbackQuads(hist[k].weight, ConcSubject, ConcClass)
          /\ \A t \in TypeSet :
                rp.avgs[t] = ExpectedAverage(hist[k].score, ConcStudent, ConcSubject, t)

\* the class lookup as state c yields it and, when it finds nothing, the
\* subject-wide lookup as state d yields it
LookupsYield(c, d, q) ==
    IF PairRecords(hist[c].weight, ConcSubject, ConcClass) # {}
    THEN q \in {QuadOf(hist[c].weight[i]) :
                  i \in PairRecords(hist[c].weight, ConcSubject, ConcClass)}
    ELSE q \in FallbackQuads(hist[d].weight, ConcSubject, None)

\* C10, amended: each read of the request (the class weight lookup, the
\* subject-wide weight lookup, each of the four per-type score reads) returns
\* what a store state reached between the start and the end of the request
\* yields, the states of successive reads in the order of the reads; the
\* reads of one report may come from different states.
C10_EachReadFromAState ==
    ReportDone
    => \E c, d, k1, k2, k3, k4 \in 1..Len(hist) :
          /\ c <= d /\ d <= k1 /\ k1 <= k2 /\ k2 <= k3 /\ k3 <= k4
          /\ LookupsYield(c, d, rp.q)
          /\ rp.avgs.tugas =
                ExpectedAverage(hist[k1].score, ConcStudent, ConcSubject, "tugas")
          /\ rp.avgs.kuis =
                ExpectedAverage(hist[k2].score, ConcStudent, ConcSubject, "kuis")
          /\ rp.avgs.uts =
                ExpectedAverage(hist[k3].score, ConcStudent, ConcSubject, "uts")
          /\ rp.avgs.uas =
                ExpectedAverage(hist[k4].score, ConcStudent, ConcSubject, "uas")

\* a finished report that no single state of its request yields
C10_Witness == ReportDone /\ ~C10_SingleState

====
